---- MODULE Spec2Model ----
\* Message fetching and bootstrap orchestration of src/message/fetchActions.js:
\* the thunks fetchMessages, fetchOlder, fetchNewer, fetchMessagesInNarrow,
\* fetchPrivateMessages, tryFetch and doInitialFetch, together with the part of
\* the Redux store they read (fetching / caughtUp / message ids / session).
EXTENDS Integers, Sequences, FiniteSets, TLC

\* ---------------------------------------------------------------- bounds
\* api.getMessages calls outstanding at the same time
MaxPending == 2
\* message ids are 1..MaxMsgId
MaxMsgId == 2
\* transient failures the operation given to one tryFetch can have
MaxFailures == 2
\* backoff durations are 1..MaxDelay (MaxDelay: the ceiling)
MaxDelay == 2
\* the page sizes tried for the request windows are 1..MaxPage
MaxPage == 25

\* ------------------------------------------------------- program constants
\* config.messagesPerRequest (P)
messagesPerRequest == 50
\* anchor.js: symbolic anchors, numbers distinct from every message id
FIRST_UNREAD_ANCHOR == 0
LAST_MESSAGE_ANCHOR == 2147483647
\* count of messages asked for by fetchPrivateMessages
PrivateMessagesCount == 100
\* JavaScript's undefined, for values typed number | void
Undefined == -1

ALL_PRIVATE_NARROW == "all-private"
Narrows == {"stream", ALL_PRIVATE_NARROW}
MsgIds == 1..MaxMsgId

MESSAGE_FETCH_START == "MESSAGE_FETCH_START"
MESSAGE_FETCH_ERROR == "MESSAGE_FETCH_ERROR"
MESSAGE_FETCH_COMPLETE == "MESSAGE_FETCH_COMPLETE"
\* the remote call itself, recorded in the same trace as the signals
API_GET_MESSAGES == "api.getMessages"

VARIABLES
    needsInitialFetch,  \* session.needsInitialFetch
    fetching,           \* state.fetching[narrow] = {older, newer}
    caughtUp,           \* state.caughtUp[narrow] = {older, newer}
    messages,           \* ids of the messages the store holds per narrow
    calls,              \* the api.getMessages calls outstanding, oldest first,
                        \* each with what its thunk has dispatched and called
    last                \* the step taken last: the thunk, its arguments and
                        \* the call it issued or settled

VARIABLES
    pc,                 \* where doInitialFetch is
    tf,                 \* the two tryFetch invocations of doInitialFetch
    bootLog             \* what doInitialFetch has dispatched, in order

VARIABLES
    page,               \* a value of config.messagesPerRequest
    window              \* the counts a thunk asks api.getMessages for with it

fetchVars == <<needsInitialFetch, fetching, caughtUp, messages, calls, last>>
bootVars == <<pc, tf, bootLog>>
windowVars == <<page, window>>
vars ==
    <<needsInitialFetch, fetching, caughtUp, messages, calls, last, pc, tf, bootLog,
      page, window>>

\* ------------------------------------------------------------- selectors
Min(S) == CHOOSE x \in S : \A y \in S : x <= y
Max(S) == CHOOSE x \in S : \A y \in S : x >= y

getFirstMessageId(n) == IF messages[n] = {} THEN Undefined ELSE Min(messages[n])
getLastMessageId(n) == IF messages[n] = {} THEN Undefined ELSE Max(messages[n])
getCaughtUpForNarrow(n) == caughtUp[n]
getFetchingForNarrow(n) == fetching[n]

\* ------------------------------------------------------- action creators
messageFetchStart(narrow, numBefore, numAfter) ==
    [type |-> MESSAGE_FETCH_START, narrow |-> narrow, anchor |-> Undefined,
     numBefore |-> numBefore, numAfter |-> numAfter,
     foundNewest |-> FALSE, foundOldest |-> FALSE]

messageFetchError(narrow) ==
    [type |-> MESSAGE_FETCH_ERROR, narrow |-> narrow, anchor |-> Undefined,
     numBefore |-> Undefined, numAfter |-> Undefined,
     foundNewest |-> FALSE, foundOldest |-> FALSE]

messageFetchComplete(narrow, anchor, numBefore, numAfter, foundNewest, foundOldest) ==
    [type |-> MESSAGE_FETCH_COMPLETE, narrow |-> narrow, anchor |-> anchor,
     numBefore |-> numBefore, numAfter |-> numAfter,
     foundNewest |-> foundNewest, foundOldest |-> foundOldest]

\* the request handed to api.getMessages
apiGetMessages(narrow, anchor, numBefore, numAfter) ==
    [type |-> API_GET_MESSAGES, narrow |-> narrow, anchor |-> anchor,
     numBefore |-> numBefore, numAfter |-> numAfter,
     foundNewest |-> FALSE, foundOldest |-> FALSE]

\* --------------------------------------------------------- store reducers
\* fetching: a start signal raises the flag of each direction it asks for
fetchingOnStart(f, a) ==
    [f EXCEPT ![a.narrow] = [older |-> @.older \/ a.numBefore > 0,
                             newer |-> @.newer \/ a.numAfter > 0]]

\* fetching: a completion lowers the flag of each direction it asked for
fetchingOnComplete(f, a) ==
    [f EXCEPT ![a.narrow] = [older |-> @.older /\ ~(a.numBefore > 0),
                             newer |-> @.newer /\ ~(a.numAfter > 0)]]

\* fetching: an error signal names the narrow only; both flags are lowered
fetchingOnError(f, a) ==
    [f EXCEPT ![a.narrow] = [older |-> FALSE, newer |-> FALSE]]

\* caughtUp: a completion records what the server found
caughtUpOnComplete(c, a) ==
    [c EXCEPT ![a.narrow] = [older |-> @.older \/ a.foundOldest,
                             newer |-> @.newer \/ a.foundNewest]]

\* narrows: a completion adds the fetched messages
messagesOnComplete(m, narrow, fetched) ==
    [m EXCEPT ![narrow] = @ \cup fetched]

\* session: INITIAL_FETCH_COMPLETE ends the initial-bootstrap phase
sessionOnInitialFetchComplete(flag) == FALSE

\* ----------------------------------------------------------------- thunks
Half(p) == p \div 2

NoCall ==
    [origin |-> "none", narrow |-> "none", anchor |-> Undefined, numBefore |-> Undefined,
     numAfter |-> Undefined, remote |-> "none", promise |-> "none", response |-> <<>>,
     trace |-> <<>>]

Step(op, narrow, arg, call) == [op |-> op, narrow |-> narrow, arg |-> arg, call |-> call]

RemoveAt(s, i) == SubSeq(s, 1, i - 1) \o SubSeq(s, i + 1, Len(s))

\* fetchMessages up to its await: the start signal, then the remote call
fetchMessagesStart(origin, narrow, anchor, numBefore, numAfter) ==
    LET start == messageFetchStart(narrow, numBefore, numAfter)
        request == apiGetMessages(narrow, anchor, numBefore, numAfter)
    IN  [origin |-> origin, narrow |-> narrow, anchor |-> anchor,
         numBefore |-> numBefore, numAfter |-> numAfter,
         remote |-> "pending", promise |-> "pending", response |-> <<>>,
         trace |-> <<start, request>>]

fetchMessages(op, arg, narrow, anchor, numBefore, numAfter) ==
    LET c == fetchMessagesStart(op, narrow, anchor, numBefore, numAfter)
    IN  /\ fetching' = fetchingOnStart(fetching, c.trace[1])
        /\ calls' = Append(calls, c)
        /\ last' = Step(op, narrow, arg, c)

\* a thunk that returns without dispatching anything
NoFetch(op, arg, narrow) ==
    /\ last' = Step(op, narrow, arg, NoCall)
    /\ UNCHANGED <<fetching, calls>>

\* fetchOlderGuard without its caught-up test
fetchOlderGuardIgnoringCaughtUp(n) ==
    /\ ~needsInitialFetch
    /\ ~getFetchingForNarrow(n).older
    /\ getFirstMessageId(n) # Undefined

fetchOlderGuard(n) ==
    /\ ~needsInitialFetch
    /\ ~getFetchingForNarrow(n).older
    /\ ~getCaughtUpForNarrow(n).older
    /\ getFirstMessageId(n) # Undefined

fetchNewerGuard(n) ==
    /\ ~needsInitialFetch
    /\ ~getFetchingForNarrow(n).newer
    /\ ~getCaughtUpForNarrow(n).newer
    /\ getLastMessageId(n) # Undefined

\* fetchOlderArgs anchored at the wrong end of the narrow
fetchOlderArgsAtLast(n) ==
    [anchor |-> getLastMessageId(n), numBefore |-> messagesPerRequest, numAfter |-> 0]

fetchOlderArgs(n) ==
    [anchor |-> getFirstMessageId(n), numBefore |-> messagesPerRequest, numAfter |-> 0]

fetchNewerArgs(n) ==
    [anchor |-> getLastMessageId(n), numBefore |-> 0, numAfter |-> messagesPerRequest]

fetchOlder(n) ==
    /\ Len(calls) < MaxPending
    /\ IF fetchOlderGuard(n)
         THEN LET a == fetchOlderArgs(n)
              IN  fetchMessages("fetchOlder", Undefined, n, a.anchor, a.numBefore, a.numAfter)
         ELSE NoFetch("fetchOlder", Undefined, n)
    /\ UNCHANGED <<needsInitialFetch, caughtUp, messages>>

fetchNewer(n) ==
    /\ Len(calls) < MaxPending
    /\ IF fetchNewerGuard(n)
         THEN LET a == fetchNewerArgs(n)
              IN  fetchMessages("fetchNewer", Undefined, n, a.anchor, a.numBefore, a.numAfter)
         ELSE NoFetch("fetchNewer", Undefined, n)
    /\ UNCHANGED <<needsInitialFetch, caughtUp, messages>>

\* isFetchNeededAtAnchor giving up as soon as one direction is caught up
isFetchNeededAtAnchorEither(n, anchor) ==
    ~(getCaughtUpForNarrow(n).newer \/ getCaughtUpForNarrow(n).older)

\* isFetchNeededAtAnchor holding back, as fetchOlder and fetchNewer do, during
\* the initial fetch and while a fetch for the narrow is in flight
isFetchNeededAtAnchorWhenIdle(n, anchor) ==
    /\ ~(getCaughtUpForNarrow(n).newer /\ getCaughtUpForNarrow(n).older)
    /\ ~needsInitialFetch
    /\ ~getFetchingForNarrow(n).older
    /\ ~getFetchingForNarrow(n).newer

isFetchNeededAtAnchor(n, anchor) ==
    ~(getCaughtUpForNarrow(n).newer /\ getCaughtUpForNarrow(n).older)

\* the default value of the anchor parameter
anchorOrDefault(anchor) == IF anchor = Undefined THEN FIRST_UNREAD_ANCHOR ELSE anchor

fetchMessagesInNarrowArgs(anchor) ==
    [anchor |-> anchor, numBefore |-> Half(messagesPerRequest),
     numAfter |-> Half(messagesPerRequest)]

\* arg is the anchor as the caller passed it (Undefined: not passed)
fetchMessagesInNarrow(n, arg) ==
    /\ Len(calls) < MaxPending
    /\ IF isFetchNeededAtAnchor(n, anchorOrDefault(arg))
         THEN LET a == fetchMessagesInNarrowArgs(anchorOrDefault(arg))
              IN  fetchMessages("fetchMessagesInNarrow", arg, n,
                                a.anchor, a.numBefore, a.numAfter)
         ELSE NoFetch("fetchMessagesInNarrow", arg, n)
    /\ UNCHANGED <<needsInitialFetch, caughtUp, messages>>

IsFetchMessagesCall(i) ==
    /\ i \in 1..Len(calls)
    /\ calls[i].origin # "fetchPrivateMessages"

\* fetchMessages after its await, the call having succeeded: the completion
\* signal, then the promise resolves with the messages
fetchMessagesResolved(i, fetched, found_newest, found_oldest) ==
    /\ IsFetchMessagesCall(i)
    /\ LET c == calls[i]
           done == messageFetchComplete(c.narrow, c.anchor, c.numBefore, c.numAfter,
                                        found_newest, found_oldest)
       IN  /\ fetching' = fetchingOnComplete(fetching, done)
           /\ caughtUp' = caughtUpOnComplete(caughtUp, done)
           /\ messages' = messagesOnComplete(messages, c.narrow, fetched)
           /\ calls' = RemoveAt(calls, i)
           /\ last' = Step("fetchMessagesResolved", c.narrow, Undefined,
                           [c EXCEPT !.remote = "ok", !.promise = "resolved",
                                     !.response = <<found_newest, found_oldest>>,
                                     !.trace = Append(@, done)])
    /\ UNCHANGED needsInitialFetch

\* fetchMessagesCatch throwing the error again without telling the store
fetchMessagesCatchSilent(op, i, remote) ==
    LET c == calls[i]
    IN  /\ calls' = RemoveAt(calls, i)
        /\ last' = Step(op, c.narrow, Undefined,
                        [c EXCEPT !.remote = remote, !.promise = "rejected"])
        /\ UNCHANGED <<needsInitialFetch, fetching, caughtUp, messages>>

\* the catch block: the error signal, then the error is thrown again
fetchMessagesCatch(op, i, remote) ==
    LET c == calls[i]
        err == messageFetchError(c.narrow)
    IN  /\ fetching' = fetchingOnError(fetching, err)
        /\ calls' = RemoveAt(calls, i)
        /\ last' = Step(op, c.narrow, Undefined,
                        [c EXCEPT !.remote = remote, !.promise = "rejected",
                                  !.trace = Append(@, err)])
        /\ UNCHANGED <<needsInitialFetch, caughtUp, messages>>

\* fetchMessages after its await, the call having failed
fetchMessagesRejected(i) ==
    /\ IsFetchMessagesCall(i)
    /\ fetchMessagesCatch("fetchMessagesRejected", i, "failed")

\* fetchMessages after its await, the call having succeeded and the handling
\* of its result (building and storing the completion) having thrown
fetchMessagesProcessingFailed(i) ==
    /\ IsFetchMessagesCall(i)
    /\ fetchMessagesCatch("fetchMessagesProcessingFailed", i, "ok")

\* the bootstrap, seen from the message store: doInitialFetch dispatches
\* INITIAL_FETCH_COMPLETE
InitialFetchCompleted ==
    /\ needsInitialFetch
    /\ needsInitialFetch' = sessionOnInitialFetchComplete(needsInitialFetch)
    /\ last' = Step("initialFetchComplete", "none", Undefined, NoCall)
    /\ UNCHANGED <<fetching, caughtUp, messages, calls>>

NoFlags == [n \in Narrows |-> [older |-> FALSE, newer |-> FALSE]]
\* what a response's message list can hold
Fetched == {{}, MsgIds}
\* the anchors a caller passes to fetchMessagesInNarrow
AnchorArgs == {Undefined, MaxMsgId}

\* ---------------------------------------------------------------- tryFetch
REGISTER == "api.registerForEvents"
SETTINGS == "api.getServerSettings"
TryFetchIds == {REGISTER, SETTINGS}

\* what can go wrong with a call: an HTTP 4xx answer, an HTTP 5xx answer, no answer
ErrorKinds == {"client", "server", "network"}
isClientError(e) == e = "client"

\* server versions: as the server sends them, and parsed into their numeric
\* components
NoVersion == "0.0"
Versions == {"1.9", "2.1", "3.0"}
MIN_RECENTPMS_SERVER_VERSION == "2.1"

\* the value a bootstrap call resolves with: registerForEvents gives the queue,
\* getServerSettings the version
NoValue == [queue_id |-> "none", last_event_id |-> Undefined, zulip_version |-> NoVersion]
RegisterResults ==
    {[queue_id |-> "q1", last_event_id |-> 0, zulip_version |-> NoVersion],
     [queue_id |-> "q2", last_event_id |-> 7, zulip_version |-> NoVersion]}
SettingsResults ==
    {[queue_id |-> "none", last_event_id |-> Undefined, zulip_version |-> v] : v \in Versions}
Results(id) == IF id = REGISTER THEN RegisterResults ELSE SettingsResults

\* one tryFetch invocation. Its own state: status, waits (the durations of the
\* backoff waits begun), value (what it returned) and error (what it threw).
\* What func saw and did: funcCalls (times it was called), failures (times it
\* failed with an error that is no client error), outcome (how its last call
\* ended) and funcResult (what its last successful call gave).
NewTryFetch ==
    [status |-> "idle", waits |-> <<>>, value |-> NoValue, error |-> "none",
     funcCalls |-> 0, failures |-> 0, outcome |-> "none", funcResult |-> NoValue]

\* BackoffMachine.wait: the durations it can choose after the waits made so far
backoffDurations(waits) ==
    {d \in 1..MaxDelay : waits = <<>> \/ d >= waits[Len(waits)]}

\* tryFetch up to its first await: a new BackoffMachine, func is called
tryFetchStart(t) == [t EXCEPT !.status = "calling", !.funcCalls = 1]

\* `return await func()`, func having succeeded with value v
tryFetchReturn(t, v) == [t EXCEPT !.status = "returned", !.value = v]

\* tryFetchCatch waiting and trying again after a client error too
tryFetchCatchRetryAll(t, e, d) ==
    [t EXCEPT !.status = "waiting", !.waits = Append(@, d)]

\* tryFetchCatch giving up at the first error of any kind
tryFetchCatchNoRetry(t, e, d) ==
    [t EXCEPT !.status = "thrown", !.error = e]

\* the catch block, func having failed with error e: a client error is thrown
\* again, any other begins a backoff wait of duration d
tryFetchCatch(t, e, d) ==
    IF isClientError(e)
      THEN [t EXCEPT !.status = "thrown", !.error = e]
      ELSE [t EXCEPT !.status = "waiting", !.waits = Append(@, d)]

\* the wait is over: the loop calls func again
tryFetchRetry(t) == [t EXCEPT !.status = "calling", !.funcCalls = @ + 1]

funcResolves(id, v) ==
    /\ tf[id].status = "calling"
    /\ tf' = [tf EXCEPT ![id] = [tryFetchReturn(@, v) EXCEPT !.outcome = "ok",
                                                             !.funcResult = v]]
    /\ last' = Step("funcResolves", id, Undefined, NoCall)
    /\ UNCHANGED <<needsInitialFetch, fetching, caughtUp, messages, calls, pc, bootLog,
                   windowVars>>

funcRejects(id, e) ==
    /\ tf[id].status = "calling"
    /\ isClientError(e) \/ tf[id].failures < MaxFailures
    /\ \E d \in backoffDurations(tf[id].waits) :
          tf' = [tf EXCEPT ![id] =
                    [tryFetchCatch(@, e, d) EXCEPT
                        !.outcome = e,
                        !.failures = IF isClientError(e) THEN @ ELSE @ + 1]]
    /\ last' = Step("funcRejects", id, Undefined, NoCall)
    /\ UNCHANGED <<needsInitialFetch, fetching, caughtUp, messages, calls, pc, bootLog,
                   windowVars>>

backoffWaitElapses(id) ==
    /\ tf[id].status = "waiting"
    /\ tf' = [tf EXCEPT ![id] = tryFetchRetry(@)]
    /\ last' = Step("backoffWaitElapses", id, Undefined, NoCall)
    /\ UNCHANGED <<needsInitialFetch, fetching, caughtUp, messages, calls, pc, bootLog,
                   windowVars>>

\* ---------------------------------------------------------- doInitialFetch
INITIAL_FETCH_START == "INITIAL_FETCH_START"
INITIAL_FETCH_COMPLETE == "INITIAL_FETCH_COMPLETE"
LOGOUT == "logout"
REALM_INIT == "realmInit"
START_EVENT_POLLING == "startEventPolling"
FETCH_PRIVATE_MESSAGES == "fetchPrivateMessages"
SEND_OUTBOX == "sendOutbox"
INIT_NOTIFICATIONS == "initNotifications"

\* new ZulipVersion(raw), and version.isAtLeast(other)
ZulipVersion(raw) ==
    CASE raw = "1.9" -> <<1, 9>>
      [] raw = "2.1" -> <<2, 1>>
      [] raw = "3.0" -> <<3, 0>>
      [] OTHER -> <<0, 0>>
isAtLeast(v, w) == v[1] > w[1] \/ (v[1] = w[1] /\ v[2] >= w[2])

\* what doInitialFetch dispatches
Signal(type, initData, version, queue_id, last_event_id) ==
    [type |-> type, initData |-> initData, version |-> version,
     queue_id |-> queue_id, last_event_id |-> last_event_id]
Plain(type) == Signal(type, NoValue, ZulipVersion(NoVersion), "none", Undefined)
initialFetchStart == Plain(INITIAL_FETCH_START)
initialFetchComplete == Plain(INITIAL_FETCH_COMPLETE)
logout == Plain(LOGOUT)
realmInit(initData, version) == Signal(REALM_INIT, initData, version, "none", Undefined)
startEventPolling(queue_id, last_event_id) ==
    Signal(START_EVENT_POLLING, NoValue, ZulipVersion(NoVersion), queue_id, last_event_id)
sendOutbox == Plain(SEND_OUTBOX)
initNotifications == Plain(INIT_NOTIFICATIONS)

\* Promise.all over the two tryFetch promises
promiseAllAny ==
    IF \E id \in TryFetchIds : tf[id].status = "returned" THEN "fulfilled" ELSE "pending"

promiseAll ==
    IF \E id \in TryFetchIds : tf[id].status = "thrown" THEN "rejected"
    ELSE IF \A id \in TryFetchIds : tf[id].status = "returned" THEN "fulfilled"
    ELSE "pending"

\* fetchPrivateMessagesStart asking for the messages after the anchor
fetchPrivateMessagesStartNewer ==
    [origin |-> FETCH_PRIVATE_MESSAGES, narrow |-> ALL_PRIVATE_NARROW,
     anchor |-> LAST_MESSAGE_ANCHOR, numBefore |-> 0, numAfter |-> PrivateMessagesCount,
     remote |-> "pending", promise |-> "pending", response |-> <<>>,
     trace |-> <<apiGetMessages(ALL_PRIVATE_NARROW, LAST_MESSAGE_ANCHOR,
                                0, PrivateMessagesCount)>>]

\* fetchPrivateMessagesStart dispatching the start signal as fetchMessages does
fetchPrivateMessagesStartSignalled ==
    [origin |-> FETCH_PRIVATE_MESSAGES, narrow |-> ALL_PRIVATE_NARROW,
     anchor |-> LAST_MESSAGE_ANCHOR, numBefore |-> PrivateMessagesCount, numAfter |-> 0,
     remote |-> "pending", promise |-> "pending", response |-> <<>>,
     trace |-> <<messageFetchStart(ALL_PRIVATE_NARROW, PrivateMessagesCount, 0),
                 apiGetMessages(ALL_PRIVATE_NARROW, LAST_MESSAGE_ANCHOR,
                                PrivateMessagesCount, 0)>>]

\* fetchPrivateMessages up to its await: the remote call, and no signal
fetchPrivateMessagesStart ==
    [origin |-> FETCH_PRIVATE_MESSAGES, narrow |-> ALL_PRIVATE_NARROW,
     anchor |-> LAST_MESSAGE_ANCHOR, numBefore |-> PrivateMessagesCount, numAfter |-> 0,
     remote |-> "pending", promise |-> "pending", response |-> <<>>,
     trace |-> <<apiGetMessages(ALL_PRIVATE_NARROW, LAST_MESSAGE_ANCHOR,
                                PrivateMessagesCount, 0)>>]

\* doInitialFetchStart beginning the two calls without the start signal
doInitialFetchStartUnsignalled ==
    /\ pc = "idle"
    /\ pc' = "awaiting"
    /\ bootLog' = bootLog
    /\ tf' = [id \in TryFetchIds |-> tryFetchStart(tf[id])]
    /\ last' = Step("doInitialFetchStart", "none", Undefined, NoCall)
    /\ UNCHANGED <<needsInitialFetch, fetching, caughtUp, messages, calls, windowVars>>

\* lines 307-339: the start signal, then both tryFetch calls begin
doInitialFetchStart ==
    /\ pc = "idle"
    /\ pc' = "awaiting"
    /\ bootLog' = Append(bootLog, initialFetchStart)
    /\ tf' = [id \in TryFetchIds |-> tryFetchStart(tf[id])]
    /\ last' = Step("doInitialFetchStart", "none", Undefined, NoCall)
    /\ UNCHANGED <<needsInitialFetch, fetching, caughtUp, messages, calls, windowVars>>

\* the catch block going on to the rest of the function instead of returning
doInitialFetchCatchFallsThrough ==
    /\ pc = "awaiting"
    /\ promiseAll = "rejected"
    /\ pc' = "done"
    /\ bootLog' = bootLog \o <<logout, realmInit(tf[REGISTER].value, ZulipVersion(NoVersion)),
                                initialFetchComplete,
                                startEventPolling(tf[REGISTER].value.queue_id,
                                                  tf[REGISTER].value.last_event_id),
                                sendOutbox, initNotifications>>
    /\ needsInitialFetch' = sessionOnInitialFetchComplete(needsInitialFetch)
    /\ last' = Step("doInitialFetchCatch", "none", Undefined, NoCall)
    /\ UNCHANGED <<fetching, caughtUp, messages, calls, tf, windowVars>>

\* lines 340-345: Promise.all rejected; log out and return
doInitialFetchCatch ==
    /\ pc = "awaiting"
    /\ promiseAll = "rejected"
    /\ pc' = "loggedOut"
    /\ bootLog' = Append(bootLog, logout)
    /\ last' = Step("doInitialFetchCatch", "none", Undefined, NoCall)
    /\ UNCHANGED <<needsInitialFetch, fetching, caughtUp, messages, calls, tf, windowVars>>

\* what lines 348-357 dispatch, in order, the legacy fetch being needed or not
doInitialFetchSignalsCompleteFirst(initData, serverVersion, legacy) ==
    <<initialFetchComplete,
      realmInit(initData, serverVersion),
      startEventPolling(initData.queue_id, initData.last_event_id)>>
    \o (IF legacy THEN <<Plain(FETCH_PRIVATE_MESSAGES)>> ELSE <<>>)
    \o <<sendOutbox, initNotifications>>

\* doInitialFetchSignals awaiting the legacy fetch: what lines 356-357 dispatch
\* is put off until it is over
doInitialFetchSignalsAwaitingLegacy(initData, serverVersion, legacy) ==
    <<realmInit(initData, serverVersion),
      initialFetchComplete,
      startEventPolling(initData.queue_id, initData.last_event_id)>>
    \o (IF legacy THEN <<Plain(FETCH_PRIVATE_MESSAGES)>> ELSE <<sendOutbox, initNotifications>>)

doInitialFetchSignals(initData, serverVersion, legacy) ==
    <<realmInit(initData, serverVersion),
      initialFetchComplete,
      startEventPolling(initData.queue_id, initData.last_event_id)>>
    \o (IF legacy THEN <<Plain(FETCH_PRIVATE_MESSAGES)>> ELSE <<>>)
    \o <<sendOutbox, initNotifications>>

\* line 352 with the gate left out: the legacy fetch whatever the server is
fetchPrivateMessagesNeededAlways(serverVersion) == TRUE

\* line 352: !serverVersion.isAtLeast(MIN_RECENTPMS_SERVER_VERSION)
fetchPrivateMessagesNeeded(serverVersion) ==
    ~isAtLeast(serverVersion, ZulipVersion(MIN_RECENTPMS_SERVER_VERSION))

\* lines 347-357: Promise.all fulfilled
doInitialFetchContinue ==
    /\ pc = "awaiting"
    /\ promiseAll = "fulfilled"
    /\ LET initData == tf[REGISTER].value
           serverSettings == tf[SETTINGS].value
           serverVersion == ZulipVersion(serverSettings.zulip_version)
           legacy == fetchPrivateMessagesNeeded(serverVersion)
       IN  /\ bootLog' = bootLog \o doInitialFetchSignals(initData, serverVersion, legacy)
           /\ calls' = IF legacy THEN Append(calls, fetchPrivateMessagesStart) ELSE calls
           /\ last' = Step("doInitialFetchContinue", "none", Undefined,
                           IF legacy THEN fetchPrivateMessagesStart ELSE NoCall)
    /\ needsInitialFetch' = sessionOnInitialFetchComplete(needsInitialFetch)
    /\ pc' = "done"
    /\ UNCHANGED <<fetching, caughtUp, messages, tf, windowVars>>

IsFetchPrivateMessagesCall(i) ==
    /\ i \in 1..Len(calls)
    /\ calls[i].origin = FETCH_PRIVATE_MESSAGES

\* fetchPrivateMessages after its await, the call having succeeded
fetchPrivateMessagesResolved(i, fetched, found_newest, found_oldest) ==
    /\ IsFetchPrivateMessagesCall(i)
    /\ LET c == calls[i]
           done == messageFetchComplete(ALL_PRIVATE_NARROW, LAST_MESSAGE_ANCHOR,
                                        PrivateMessagesCount, 0, found_newest, found_oldest)
       IN  /\ fetching' = fetchingOnComplete(fetching, done)
           /\ caughtUp' = caughtUpOnComplete(caughtUp, done)
           /\ messages' = messagesOnComplete(messages, ALL_PRIVATE_NARROW, fetched)
           /\ calls' = RemoveAt(calls, i)
           /\ last' = Step("fetchPrivateMessagesResolved", c.narrow, Undefined,
                           [c EXCEPT !.remote = "ok", !.promise = "resolved",
                                     !.response = <<found_newest, found_oldest>>,
                                     !.trace = Append(@, done)])
    /\ UNCHANGED <<needsInitialFetch, bootVars, windowVars>>

\* fetchPrivateMessages after its await, the call having failed (remote =
\* "failed") or the handling of its result having thrown (remote = "ok"): the
\* promise, which nobody awaits, rejects
fetchPrivateMessagesRejected(i, remote) ==
    /\ IsFetchPrivateMessagesCall(i)
    /\ LET c == calls[i]
       IN  /\ calls' = RemoveAt(calls, i)
           /\ last' = Step("fetchPrivateMessagesRejected", c.narrow, Undefined,
                           [c EXCEPT !.remote = remote, !.promise = "rejected"])
    /\ UNCHANGED <<needsInitialFetch, fetching, caughtUp, messages, bootVars, windowVars>>

\* what becomes of the promise of the fetch a thunk dispatches:
\* fetchMessagesInNarrow hands it to its caller (`return dispatch(...)`, line
\* 211); fetchOlder, fetchNewer and doInitialFetch drop it (lines 133, 152, 353)
promiseReturned(origin) == origin = "fetchMessagesInNarrow"

\* ------------------------------------------------------ request windows
\* numBefore and numAfter as JavaScript computes them from a page size p. The
\* division of lines 215-216 is not whole for an odd p, so a count is held as
\* whole + half / 2 with half in {0, 1}.
Num(n) == [whole |-> n, half |-> 0]

\* p / 2 rounded down to a whole number
Div2Floor(p) == [whole |-> p \div 2, half |-> 0]

\* p / 2
Div2(p) == [whole |-> p \div 2, half |-> p % 2]

fetchOlderCounts(p) == [numBefore |-> Num(p), numAfter |-> Num(0)]
fetchNewerCounts(p) == [numBefore |-> Num(0), numAfter |-> Num(p)]
fetchMessagesInNarrowCounts(p) == [numBefore |-> Div2(p), numAfter |-> Div2(p)]
fetchPrivateMessagesCounts ==
    [numBefore |-> Num(PrivateMessagesCount), numAfter |-> Num(0)]

NoWindow == [thunk |-> "none", numBefore |-> Num(0), numAfter |-> Num(0)]

\* the page size of this build, and no window worked out
FixedPage ==
    /\ page = messagesPerRequest
    /\ window = NoWindow

\* the thunk works out the counts of its request
requestWindow(thunk, counts) ==
    /\ window' = [thunk |-> thunk, numBefore |-> counts.numBefore,
                  numAfter |-> counts.numAfter]
    /\ UNCHANGED <<fetchVars, bootVars, page>>

\* ------------------------------------------------ the paging specification
\* no bootstrap has run; the thunks of the message list run in any order
IdleBoot ==
    /\ pc = "idle"
    /\ tf = [id \in TryFetchIds |-> NewTryFetch]
    /\ bootLog = <<>>

InitFetch ==
    /\ needsInitialFetch = TRUE
    /\ fetching = NoFlags
    /\ caughtUp = NoFlags
    /\ messages \in [Narrows -> Fetched]
    /\ calls = <<>>
    /\ last = Step("init", "none", Undefined, NoCall)
    /\ IdleBoot
    /\ FixedPage

NextFetch ==
    \/ \E n \in Narrows : fetchOlder(n) /\ UNCHANGED <<bootVars, windowVars>>
    \/ \E n \in Narrows : fetchNewer(n) /\ UNCHANGED <<bootVars, windowVars>>
    \/ \E n \in Narrows, a \in AnchorArgs :
          fetchMessagesInNarrow(n, a) /\ UNCHANGED <<bootVars, windowVars>>
    \/ \E i \in 1..MaxPending, fetched \in Fetched, fn \in BOOLEAN, fo \in BOOLEAN :
          fetchMessagesResolved(i, fetched, fn, fo) /\ UNCHANGED <<bootVars, windowVars>>
    \/ \E i \in 1..MaxPending :
          fetchMessagesRejected(i) /\ UNCHANGED <<bootVars, windowVars>>
    \/ \E i \in 1..MaxPending :
          fetchMessagesProcessingFailed(i) /\ UNCHANGED <<bootVars, windowVars>>
    \/ InitialFetchCompleted /\ UNCHANGED <<bootVars, windowVars>>

SpecFetch == InitFetch /\ [][NextFetch]_vars

\* --------------------------------------------- the bootstrap specification
\* one run of doInitialFetch on a fresh store; no message list is open
InitBoot ==
    /\ needsInitialFetch = TRUE
    /\ fetching = NoFlags
    /\ caughtUp = NoFlags
    /\ messages = [n \in Narrows |-> {}]
    /\ calls = <<>>
    /\ last = Step("init", "none", Undefined, NoCall)
    /\ IdleBoot
    /\ FixedPage

funcSettles(id) ==
    \/ \E v \in Results(id) : funcResolves(id, v)
    \/ \E e \in ErrorKinds : funcRejects(id, e)

NextBoot ==
    \/ doInitialFetchStart
    \/ \E id \in TryFetchIds : funcSettles(id)
    \/ \E id \in TryFetchIds : backoffWaitElapses(id)
    \/ doInitialFetchCatch
    \/ doInitialFetchContinue
    \/ \E i \in 1..MaxPending, fetched \in Fetched, fn \in BOOLEAN, fo \in BOOLEAN :
          fetchPrivateMessagesResolved(i, fetched, fn, fo)
    \/ \E i \in 1..MaxPending, remote \in {"failed", "ok"} :
          fetchPrivateMessagesRejected(i, remote)

SpecBoot == InitBoot /\ [][NextBoot]_vars

\* every remote call is answered in the end and every timer fires
FairBoot ==
    \A id \in TryFetchIds :
        /\ WF_vars(funcSettles(id))
        /\ WF_vars(backoffWaitElapses(id))

LiveBoot == InitBoot /\ [][NextBoot]_vars /\ FairBoot

\* and what follows `await Promise.all` runs once the promise is settled
FairRun ==
    /\ FairBoot
    /\ WF_vars(doInitialFetchCatch)
    /\ WF_vars(doInitialFetchContinue)

LiveRun == InitBoot /\ [][NextBoot]_vars /\ FairRun

\* --------------------------------------- the request window specification
\* the four thunks work out their request for every page size up to MaxPage
InitWindow ==
    /\ page \in 1..MaxPage
    /\ window = NoWindow
    /\ needsInitialFetch = TRUE
    /\ fetching = NoFlags
    /\ caughtUp = NoFlags
    /\ messages = [n \in Narrows |-> {}]
    /\ calls = <<>>
    /\ last = Step("init", "none", Undefined, NoCall)
    /\ IdleBoot

NextWindow ==
    \/ requestWindow("fetchOlder", fetchOlderCounts(page))
    \/ requestWindow("fetchNewer", fetchNewerCounts(page))
    \/ requestWindow("fetchMessagesInNarrow", fetchMessagesInNarrowCounts(page))
    \/ requestWindow(FETCH_PRIVATE_MESSAGES, fetchPrivateMessagesCounts)

SpecWindow == InitWindow /\ [][NextWindow]_vars

\* ------------------------------------------------------- claims on paging
\* what the formulas below read off a step
IsStart(e, n) == e.type = MESSAGE_FETCH_START /\ e.narrow = n
IsRequest(e, n, anchor, numBefore, numAfter) ==
    /\ e.type = API_GET_MESSAGES
    /\ e.narrow = n
    /\ e.anchor = anchor
    /\ e.numBefore = numBefore
    /\ e.numAfter = numAfter
\* the step issues exactly one remote call, for narrow n, on behalf of op
IssuesOne(op, n) ==
    /\ Len(calls') = Len(calls) + 1
    /\ SubSeq(calls', 1, Len(calls)) = calls
    /\ calls'[Len(calls')].origin = op
    /\ calls'[Len(calls')].narrow = n
    /\ calls'[Len(calls')].remote = "pending"
\* the step emits no signal and performs no remote call
IsSilent ==
    /\ calls' = calls
    /\ fetching' = fetching
    /\ caughtUp' = caughtUp
    /\ messages' = messages
    /\ last'.call = NoCall
NewCall == calls'[Len(calls')]

\* C1: fetchOlder (fetchNewer) issues a fetch exactly when the session is past
\* its initial fetch, no older (newer) fetch is in flight for the narrow, the
\* narrow is not caught up that way and its first (last) message id is known;
\* in every other state it dispatches nothing and calls nothing.
C1_FetchIffGuard ==
    [][ /\ last'.op = "fetchOlder" =>
             LET n == last'.narrow
             IN  IF /\ ~needsInitialFetch
                    /\ ~fetching[n].older
                    /\ ~caughtUp[n].older
                    /\ messages[n] # {}
                   THEN IssuesOne("fetchOlder", n)
                   ELSE IsSilent
        /\ last'.op = "fetchNewer" =>
             LET n == last'.narrow
             IN  IF /\ ~needsInitialFetch
                    /\ ~fetching[n].newer
                    /\ ~caughtUp[n].newer
                    /\ messages[n] # {}
                   THEN IssuesOne("fetchNewer", n)
                   ELSE IsSilent
      ]_vars

\* fetchOlder ran on a narrow that only its caught-up flag kept from fetching
C1_Witness ==
    /\ last.op = "fetchOlder"
    /\ last.call = NoCall
    /\ caughtUp[last.narrow].older
    /\ ~needsInitialFetch
    /\ ~fetching[last.narrow].older
    /\ messages[last.narrow] # {}

FetchMessagesCalls ==
    {calls[i] : i \in {j \in 1..Len(calls) : calls[j].origin # "fetchPrivateMessages"}}
       \cup (IF last.call.origin \in {"fetchOlder", "fetchNewer", "fetchMessagesInNarrow"}
               THEN {last.call} ELSE {})

StartsWithStartAndRequest(c) ==
    /\ Len(c.trace) >= 2
    /\ c.trace[1] = messageFetchStart(c.narrow, c.numBefore, c.numAfter)
    /\ IsRequest(c.trace[2], c.narrow, c.anchor, c.numBefore, c.numAfter)
    /\ \A k \in 3..Len(c.trace) : c.trace[k].type \notin {MESSAGE_FETCH_START, API_GET_MESSAGES}

IsCompletion(e, c) ==
    /\ e.type = MESSAGE_FETCH_COMPLETE
    /\ e.narrow = c.narrow
    /\ e.anchor = c.anchor
    /\ e.numBefore = c.numBefore
    /\ e.numAfter = c.numAfter

IsError(e, c) == e.type = MESSAGE_FETCH_ERROR /\ e.narrow = c.narrow

\* C3 as claimed: start signal, one remote call, then exactly one outcome, which
\* is the completion when the call succeeded and the error, thrown again, when
\* the call failed.
C3_OutcomeFollowsCall ==
    \A c \in FetchMessagesCalls :
        /\ StartsWithStartAndRequest(c)
        /\ c.promise = "pending" => Len(c.trace) = 2 /\ c.remote = "pending"
        /\ c.remote = "ok" =>
              Len(c.trace) = 3 /\ IsCompletion(c.trace[3], c) /\ c.promise = "resolved"
        /\ c.remote = "failed" =>
              Len(c.trace) = 3 /\ IsError(c.trace[3], c) /\ c.promise = "rejected"

\* C3 as amended: start signal, one remote call, then one outcome: the promise
\* resolves only after the completion signal with the request's narrow, anchor
\* and counts, which needs the call to have succeeded; it rejects only after an
\* error signal for the narrow, which follows every failed call and every
\* exception in handling the result of a call that succeeded.
C3_Protocol ==
    \A c \in FetchMessagesCalls :
        /\ StartsWithStartAndRequest(c)
        /\ c.promise = "pending" => Len(c.trace) = 2 /\ c.remote = "pending"
        /\ c.promise = "resolved" =>
              Len(c.trace) = 3 /\ IsCompletion(c.trace[3], c) /\ c.remote = "ok"
        /\ c.promise = "rejected" =>
              Len(c.trace) = 3 /\ IsError(c.trace[3], c) /\ c.remote \in {"ok", "failed"}
        /\ c.remote = "failed" => c.promise = "rejected"
        /\ c.remote # "pending" => c.promise # "pending"

\* a fetchMessages promise was rejected although its remote call succeeded
C3_Witness ==
    /\ last.op = "fetchMessagesProcessingFailed"
    /\ last.call.remote = "ok"
    /\ last.call.promise = "rejected"
    /\ IsError(last.call.trace[3], last.call)

\* C4: fetchMessagesInNarrow dispatches nothing and calls nothing when the narrow
\* is caught up both ways, and otherwise issues one call with
\* numBefore = numAfter = messagesPerRequest / 2 at the anchor passed, or at
\* FIRST_UNREAD_ANCHOR when none is passed.
C4_CenteringFetch ==
    [][ last'.op = "fetchMessagesInNarrow" =>
          LET n == last'.narrow
              anchor == IF last'.arg = Undefined THEN FIRST_UNREAD_ANCHOR ELSE last'.arg
          IN  IF caughtUp[n].older /\ caughtUp[n].newer
                THEN IsSilent
                ELSE /\ IssuesOne("fetchMessagesInNarrow", n)
                     /\ NewCall.anchor = anchor
                     /\ NewCall.numBefore = NewCall.numAfter
                     /\ 2 * NewCall.numBefore = messagesPerRequest
                     /\ IsStart(NewCall.trace[1], n)
                     /\ IsRequest(NewCall.trace[2], n, anchor,
                                  NewCall.numBefore, NewCall.numAfter)
                     /\ Len(NewCall.trace) = 2
      ]_vars

\* fetchMessagesInNarrow, called without an anchor on a narrow caught up one way
\* only, issued its call at the first-unread anchor
C4_Witness ==
    /\ last.op = "fetchMessagesInNarrow"
    /\ last.arg = Undefined
    /\ last.call.anchor = FIRST_UNREAD_ANCHOR
    /\ last.call.numBefore = Half(messagesPerRequest)
    /\ caughtUp[last.narrow].older # caughtUp[last.narrow].newer

\* C5: a call issued by fetchOlder has anchor = the narrow's first message id,
\* numBefore = messagesPerRequest, numAfter = 0; a call issued by fetchNewer has
\* anchor = the narrow's last message id, numBefore = 0,
\* numAfter = messagesPerRequest.
C5_DirectionalWindow ==
    [][ /\ (last'.op = "fetchOlder" /\ Len(calls') > Len(calls)) =>
             LET n == last'.narrow
             IN  /\ \A m \in messages[n] : NewCall.anchor <= m
                 /\ NewCall.anchor \in messages[n]
                 /\ NewCall.numBefore = messagesPerRequest
                 /\ NewCall.numAfter = 0
                 /\ IsRequest(NewCall.trace[2], n, NewCall.anchor, messagesPerRequest, 0)
        /\ (last'.op = "fetchNewer" /\ Len(calls') > Len(calls)) =>
             LET n == last'.narrow
             IN  /\ \A m \in messages[n] : NewCall.anchor >= m
                 /\ NewCall.anchor \in messages[n]
                 /\ NewCall.numBefore = 0
                 /\ NewCall.numAfter = messagesPerRequest
                 /\ IsRequest(NewCall.trace[2], n, NewCall.anchor, 0, messagesPerRequest)
      ]_vars

\* fetchOlder issued a call on a narrow whose first and last ids differ
C5_Witness ==
    /\ last.op = "fetchOlder"
    /\ last.call.origin = "fetchOlder"
    /\ last.call.anchor = 1
    /\ last.call.numBefore = 50
    /\ last.call.numAfter = 0
    /\ getLastMessageId(last.narrow) # last.call.anchor

\* ---------------------------------------------------- claims on tryFetch
IsNonDecreasing(w) == \A k \in 1..(Len(w) - 1) : w[k] <= w[k + 1]

\* C6: tryFetch returns the value of the first successful call of the operation,
\* after exactly one backoff wait per transient failure before it, the waits
\* non-decreasing; a client error is thrown again at once: no wait follows it
\* and the operation is not called again.
C6_RetryOutcome ==
    \A id \in TryFetchIds :
        LET t == tf[id]
        IN  /\ t.status = "returned" =>
                  /\ t.outcome = "ok"
                  /\ t.value = t.funcResult
                  /\ t.value \in Results(id)
                  /\ Len(t.waits) = t.failures
                  /\ t.funcCalls = t.failures + 1
            /\ t.status = "thrown" =>
                  /\ t.outcome = "client"
                  /\ t.error = "client"
                  /\ Len(t.waits) = t.failures
                  /\ t.funcCalls = t.failures + 1
            /\ t.outcome = "client" => t.status = "thrown"
            /\ IsNonDecreasing(t.waits)

\* an operation failed twice with a transient error and succeeded the third time
C6_Witness ==
    \E id \in TryFetchIds :
        /\ tf[id].status = "returned"
        /\ tf[id].failures = 2
        /\ tf[id].funcCalls = 3
        /\ Len(tf[id].waits) = 2
        /\ tf[id].waits[1] <= tf[id].waits[2]
        /\ tf[id].value = tf[id].funcResult

\* C7: tryFetch has no attempt limit: it ends only with a success of the
\* operation or a client error; after a transient failure it is waiting or
\* calling again, every wait is followed by another call, and once the
\* operation stops failing tryFetch ends.
C7_RetryUnbounded ==
    /\ [](\A id \in TryFetchIds :
            /\ tf[id].status = "returned" => tf[id].outcome = "ok"
            /\ tf[id].status = "thrown" => tf[id].outcome = "client"
            /\ tf[id].outcome \in {"server", "network"} =>
                  /\ tf[id].status \in {"waiting", "calling"}
                  /\ tf[id].funcCalls + (IF tf[id].status = "waiting" THEN 1 ELSE 0)
                        = tf[id].failures + 1)
    /\ \A id \in TryFetchIds :
          (tf[id].status = "waiting") ~> (tf[id].status = "calling")
    /\ \A id \in TryFetchIds :
          (tf[id].status # "idle") ~> (tf[id].status \in {"returned", "thrown"})

\* after as many transient failures as the operation can have here, tryFetch is
\* calling it once more
C7_Witness ==
    \E id \in TryFetchIds :
        /\ tf[id].failures = MaxFailures
        /\ tf[id].status = "calling"
        /\ tf[id].funcCalls = MaxFailures + 1

\* ---------------------------------------------- claims on doInitialFetch
Types(log) == [k \in 1..Len(log) |-> log[k].type]
IsNotLegacy(e) == e.type # FETCH_PRIVATE_MESSAGES
AbortedLogs == {<<INITIAL_FETCH_START>>, <<INITIAL_FETCH_START, LOGOUT>>}
SuccessTypes ==
    {REALM_INIT, INITIAL_FETCH_COMPLETE, START_EVENT_POLLING, FETCH_PRIVATE_MESSAGES,
     SEND_OUTBOX, INIT_NOTIFICATIONS}

\* C8: when one of the two tryFetch calls has thrown, doInitialFetch dispatches
\* logout and nothing after it: no realmInit, no INITIAL_FETCH_COMPLETE, no
\* startEventPolling, no legacy fetch, no sendOutbox, no initNotifications, and
\* the store is not told that the initial fetch is over.
C8_AbortOnTerminal ==
    /\ []((\E id \in TryFetchIds : tf[id].status = "thrown") =>
             /\ pc \in {"awaiting", "loggedOut"}
             /\ Types(bootLog) \in AbortedLogs
             /\ calls = <<>>
             /\ needsInitialFetch)
    /\ [](pc = "loggedOut" => Types(bootLog) = <<INITIAL_FETCH_START, LOGOUT>>)
    /\ [][(pc = "awaiting" /\ pc' # pc /\ \E id \in TryFetchIds : tf[id].status = "thrown")
             => (pc' = "loggedOut" /\ bootLog' = Append(bootLog, logout))]_vars

\* registration succeeded, the settings call threw, and the run ended logged out
C8_Witness ==
    /\ pc = "loggedOut"
    /\ tf[REGISTER].status = "returned"
    /\ tf[SETTINGS].status = "thrown"
    /\ Types(bootLog) = <<INITIAL_FETCH_START, LOGOUT>>

\* C9: in every interleaving of the two calls the run goes on only when both
\* have returned, and once logout is dispatched nothing more is dispatched or
\* applied, whatever the other call does afterwards.
C9_BothOrAbort ==
    /\ [][pc = "loggedOut" =>
             /\ pc' = "loggedOut"
             /\ bootLog' = bootLog
             /\ calls' = calls
             /\ needsInitialFetch' = needsInitialFetch
             /\ messages' = messages]_vars
    /\ [][(pc = "awaiting" /\ pc' = "done") =>
             \A id \in TryFetchIds : tf[id].status = "returned"]_vars
    /\ []((\E k \in 1..Len(bootLog) : bootLog[k].type \in {REALM_INIT, START_EVENT_POLLING})
             => \A id \in TryFetchIds : tf[id].status = "returned")

\* the registration call succeeded after logout had been dispatched
C9_Witness ==
    /\ pc = "loggedOut"
    /\ last.op = "funcResolves"
    /\ last.narrow = REGISTER
    /\ tf[REGISTER].status = "returned"
    /\ tf[SETTINGS].status = "thrown"
    /\ Types(bootLog) = <<INITIAL_FETCH_START, LOGOUT>>

\* C10: a run in which both calls returned has dispatched, once each and in this
\* order: realmInit (the registration's data, the version parsed from the
\* settings), INITIAL_FETCH_COMPLETE, startEventPolling (the registration's
\* queue id and last event id), the legacy fetch if any, sendOutbox,
\* initNotifications; and none of them is dispatched before both calls returned.
C10_SuccessOrder ==
    LET core == SelectSeq(bootLog, IsNotLegacy)
        initData == tf[REGISTER].funcResult
    IN  /\ pc = "done" =>
              /\ Types(core) = <<INITIAL_FETCH_START, REALM_INIT, INITIAL_FETCH_COMPLETE,
                                 START_EVENT_POLLING, SEND_OUTBOX, INIT_NOTIFICATIONS>>
              /\ Len(bootLog) <= Len(core) + 1
              /\ Len(bootLog) > Len(core) => bootLog[5].type = FETCH_PRIVATE_MESSAGES
              /\ core[2].initData = initData
              /\ core[2].version = ZulipVersion(tf[SETTINGS].funcResult.zulip_version)
              /\ core[4].queue_id = initData.queue_id
              /\ core[4].last_event_id = initData.last_event_id
        /\ (\E k \in 1..Len(bootLog) : bootLog[k].type \in SuccessTypes) =>
              /\ pc = "done"
              /\ \A id \in TryFetchIds : tf[id].status = "returned"

\* a run that succeeded with the legacy fetch, after a retry of the registration
C10_Witness ==
    /\ pc = "done"
    /\ Len(bootLog) = 7
    /\ bootLog[5].type = FETCH_PRIVATE_MESSAGES
    /\ bootLog[4].queue_id = "q2"
    /\ bootLog[4].last_event_id = 7
    /\ tf[REGISTER].failures > 0

\* ------------------------------------------------ claims on the legacy fetch
IsBelow(v, w) == v[1] < w[1] \/ (v[1] = w[1] /\ v[2] < w[2])
LegacyAt == {k \in 1..Len(bootLog) : bootLog[k].type = FETCH_PRIVATE_MESSAGES}
PendingLegacy == {i \in 1..Len(calls) : calls[i].origin = FETCH_PRIVATE_MESSAGES}
SettingsVersion == ZulipVersion(tf[SETTINGS].funcResult.zulip_version)
BelowThreshold == IsBelow(SettingsVersion, ZulipVersion(MIN_RECENTPMS_SERVER_VERSION))

\* C11: a run that succeeded has started the legacy fetch exactly once, after
\* INITIAL_FETCH_COMPLETE, when the version the settings call returned is below
\* MIN_RECENTPMS_SERVER_VERSION, and not at all when it is at or above it; a run
\* that has not succeeded (still waiting, or logged out) has started none.
C11_LegacyGate ==
    /\ [](pc = "done" =>
            /\ Cardinality(LegacyAt) = (IF BelowThreshold THEN 1 ELSE 0)
            /\ \A k \in LegacyAt :
                  \E j \in 1..(k - 1) : bootLog[j].type = INITIAL_FETCH_COMPLETE
            /\ ~BelowThreshold => (calls = <<>> /\ last.call.origin # FETCH_PRIVATE_MESSAGES))
    /\ [](pc # "done" =>
            /\ LegacyAt = {}
            /\ calls = <<>>
            /\ last.call.origin # FETCH_PRIVATE_MESSAGES)
    /\ [][(pc = "awaiting" /\ pc' = "done") =>
             calls' = (IF BelowThreshold THEN <<fetchPrivateMessagesStart>> ELSE <<>>)]_vars
    /\ [][pc = "done" => Len(calls') <= Len(calls)]_vars

\* a run against a 1.9 server succeeded and its one legacy call is outstanding
C11_Witness ==
    /\ pc = "done"
    /\ tf[SETTINGS].funcResult.zulip_version = "1.9"
    /\ Cardinality(LegacyAt) = 1
    /\ PendingLegacy = {1}

\* ------------------------------------------------------ claims on failures
HasLoggedOut == \E k \in 1..Len(bootLog) : bootLog[k].type = LOGOUT

\* C12: logout is dispatched only when one of the two tryFetch calls has thrown
\* a client error; while the only failures are transient ones (server, network)
\* the run is not logged out, however many there were; and whenever one of the
\* two calls has thrown, logout follows.
C12_LogoutOnlyOnTerminal ==
    /\ [](HasLoggedOut =>
            /\ pc = "loggedOut"
            /\ \E id \in TryFetchIds :
                  tf[id].status = "thrown" /\ tf[id].error = "client")
    /\ []((\A id \in TryFetchIds : tf[id].outcome # "client") =>
            (~HasLoggedOut /\ pc # "loggedOut"))
    /\ (\E id \in TryFetchIds : tf[id].status = "thrown") ~> HasLoggedOut

\* both calls failed as often as they can here with transient errors, and the
\* run succeeded without a logout
C12_Witness ==
    /\ pc = "done"
    /\ ~HasLoggedOut
    /\ \A id \in TryFetchIds :
          tf[id].failures = MaxFailures /\ Len(tf[id].waits) = MaxFailures

IsFetchError(e) == e.type = MESSAGE_FETCH_ERROR

\* C13: no failure of a remote call is dropped in silence. A fetch whose call
\* failed has dispatched an error signal or has handed its rejected promise to
\* its caller; a bootstrap call that failed is being retried (waiting, calling
\* again, or has meanwhile succeeded) or has thrown to doInitialFetch.
C13_NoSilentFailure ==
    /\ last.call.remote = "failed" =>
          \/ SelectSeq(last.call.trace, IsFetchError) # <<>>
          \/ (last.call.promise = "rejected" /\ promiseReturned(last.call.origin))
    /\ \A id \in TryFetchIds :
          tf[id].outcome \in ErrorKinds =>
              tf[id].status \in {"waiting", "calling", "thrown"}

IsLegacyRequest(e) ==
    /\ e.type = API_GET_MESSAGES
    /\ e.narrow = ALL_PRIVATE_NARROW
    /\ e.anchor = LAST_MESSAGE_ANCHOR
    /\ e.numBefore = 100
    /\ e.numAfter = 0

CountOf(type) == Cardinality({k \in 1..Len(bootLog) : bootLog[k].type = type})
RemoteCallMade ==
    \/ \E id \in TryFetchIds : tf[id].funcCalls > 0
    \/ calls # <<>>
    \/ last.call.origin # "none"

\* C15: a run of doInitialFetch dispatches INITIAL_FETCH_START exactly once, as
\* the first thing it does and before any remote call; it goes from idle to
\* waiting for the two calls and from there to done or to logged out, and never
\* anywhere else; it dispatches logout at most once, INITIAL_FETCH_COMPLETE at
\* most once, and never both.
C15_BootstrapStates ==
    /\ [](/\ pc \in {"idle", "awaiting", "done", "loggedOut"}
          /\ CountOf(INITIAL_FETCH_START) = (IF pc = "idle" THEN 0 ELSE 1)
          /\ bootLog # <<>> => bootLog[1].type = INITIAL_FETCH_START
          /\ RemoteCallMade => CountOf(INITIAL_FETCH_START) = 1
          /\ CountOf(LOGOUT) = (IF pc = "loggedOut" THEN 1 ELSE 0)
          /\ CountOf(INITIAL_FETCH_COMPLETE) = (IF pc = "done" THEN 1 ELSE 0)
          /\ CountOf(LOGOUT) + CountOf(INITIAL_FETCH_COMPLETE) <= 1)
    /\ [][pc' # pc =>
             \/ (pc = "idle" /\ pc' = "awaiting")
             \/ (pc = "awaiting" /\ pc' \in {"done", "loggedOut"})]_vars
    /\ [][pc = "idle" /\ pc' = "awaiting" =>
             /\ ~RemoteCallMade
             /\ bootLog' = <<initialFetchStart>>
             /\ \A id \in TryFetchIds : tf'[id].funcCalls = 1]_vars

\* both calls threw and the run ended logged out, with one logout
C15_Witness ==
    /\ pc = "loggedOut"
    /\ \A id \in TryFetchIds : tf[id].status = "thrown"
    /\ CountOf(INITIAL_FETCH_START) = 1
    /\ CountOf(LOGOUT) = 1
    /\ CountOf(INITIAL_FETCH_COMPLETE) = 0

\* --------------------------------------------- claims on request windows
IsNonNegative(x) == x.whole >= 0 /\ x.half \in {0, 1}
Plus(x, y) ==
    [whole |-> x.whole + y.whole + (x.half + y.half) \div 2,
     half |-> (x.half + y.half) % 2]
IsPositive(x) == IsNonNegative(x) /\ (x.whole > 0 \/ x.half > 0)
Whole(x) == IF x.half = 0 THEN x.whole ELSE Undefined

\* C16: for every page size from 1 up, the request each of fetchOlder,
\* fetchNewer, fetchMessagesInNarrow and fetchPrivateMessages makes has
\* numBefore >= 0, numAfter >= 0 and numBefore + numAfter > 0; and the requests
\* the thunks issue with the page size of this build carry these same counts.
C16_WindowNotEmpty ==
    /\ window.thunk # "none" =>
          /\ IsNonNegative(window.numBefore)
          /\ IsNonNegative(window.numAfter)
          /\ IsPositive(Plus(window.numBefore, window.numAfter))
    /\ \A n \in Narrows :
          /\ fetchOlderArgs(n).numBefore = Whole(fetchOlderCounts(messagesPerRequest).numBefore)
          /\ fetchOlderArgs(n).numAfter = Whole(fetchOlderCounts(messagesPerRequest).numAfter)
          /\ fetchNewerArgs(n).numBefore = Whole(fetchNewerCounts(messagesPerRequest).numBefore)
          /\ fetchNewerArgs(n).numAfter = Whole(fetchNewerCounts(messagesPerRequest).numAfter)
    /\ fetchMessagesInNarrowArgs(FIRST_UNREAD_ANCHOR).numBefore
          = Whole(fetchMessagesInNarrowCounts(messagesPerRequest).numBefore)
    /\ fetchMessagesInNarrowArgs(FIRST_UNREAD_ANCHOR).numAfter
          = Whole(fetchMessagesInNarrowCounts(messagesPerRequest).numAfter)
    /\ fetchPrivateMessagesStart.numBefore = Whole(fetchPrivateMessagesCounts.numBefore)
    /\ fetchPrivateMessagesStart.numAfter = Whole(fetchPrivateMessagesCounts.numAfter)

\* the centering request for a page size of 1: half a message each way
C16_Witness ==
    /\ page = 1
    /\ window.thunk = "fetchMessagesInNarrow"
    /\ window.numBefore = [whole |-> 0, half |-> 1]
    /\ window.numAfter = [whole |-> 0, half |-> 1]

\* ------------------------------------------- claims on the centering fetch
OutstandingFor(n) == {i \in 1..Len(calls) : calls[i].narrow = n}

\* C17: whether fetchMessagesInNarrow issues its call is decided by the two
\* caught-up flags of the narrow and by nothing else: whatever the anchor, the
\* fetching flags, needsInitialFetch and the message ids of the narrow are, it
\* issues one call unless the narrow is caught up both ways. It does so during
\* the initial fetch, and while other calls for the narrow are outstanding,
\* which then are in flight together with the new one.
C17_CenteringIgnoresTheRest ==
    [][ last'.op = "fetchMessagesInNarrow" =>
          LET n == last'.narrow
              needed == ~(caughtUp[n].older /\ caughtUp[n].newer)
          IN  /\ (Len(calls') = Len(calls) + 1) <=> needed
              /\ (Len(calls') = Len(calls)) <=> ~needed
              /\ needed =>
                    /\ NewCall.origin = "fetchMessagesInNarrow"
                    /\ NewCall.narrow = n
                    /\ NewCall.remote = "pending"
                    /\ \A i \in OutstandingFor(n) :
                          calls'[i] = calls[i] /\ calls'[i].remote = "pending"
      ]_vars

\* a centering call issued for a narrow whose older fetch is in flight: both
\* calls are outstanding
C17_Witness ==
    /\ last.op = "fetchMessagesInNarrow"
    /\ Len(calls) = 2
    /\ calls[1].origin = "fetchOlder"
    /\ calls[1].narrow = last.narrow
    /\ calls[1].remote = "pending"
    /\ calls[2].origin = "fetchMessagesInNarrow"
    /\ calls[2].narrow = last.narrow
    /\ calls[2].remote = "pending"
    /\ last.call = calls[2]

\* ------------------------------------------ claims on the legacy fetch's signals
SignalsOf(trace) == {trace[k].type : k \in 1..Len(trace)} \ {API_GET_MESSAGES}
LegacyCalls ==
    {calls[i] : i \in PendingLegacy}
      \cup (IF last.call.origin = FETCH_PRIVATE_MESSAGES THEN {last.call} ELSE {})

\* C18: the legacy fetch dispatches no MESSAGE_FETCH_START, and no
\* MESSAGE_FETCH_ERROR when it fails: while its call is outstanding and after
\* the call failed it has dispatched nothing, and after the call succeeded it
\* has dispatched one MESSAGE_FETCH_COMPLETE for the all-private narrow, with no
\* start signal before it. The fetching flags of that narrow are never raised.
C18_LegacySignals ==
    /\ \A c \in LegacyCalls :
          /\ MESSAGE_FETCH_START \notin SignalsOf(c.trace)
          /\ MESSAGE_FETCH_ERROR \notin SignalsOf(c.trace)
          /\ c.promise \in {"pending", "rejected"} => SignalsOf(c.trace) = {}
          /\ c.promise = "resolved" =>
                /\ SignalsOf(c.trace) = {MESSAGE_FETCH_COMPLETE}
                /\ Len(c.trace) = 2
                /\ c.trace[1].type = API_GET_MESSAGES
                /\ c.trace[2].narrow = ALL_PRIVATE_NARROW
    /\ ~fetching[ALL_PRIVATE_NARROW].older
    /\ ~fetching[ALL_PRIVATE_NARROW].newer

\* the legacy call succeeded: its completion signal reached the store, which
\* had seen no start signal
C18_Witness ==
    /\ last.op = "fetchPrivateMessagesResolved"
    /\ last.call.promise = "resolved"
    /\ SignalsOf(last.call.trace) = {MESSAGE_FETCH_COMPLETE}
    /\ fetching = NoFlags
    /\ messages[ALL_PRIVATE_NARROW] # {}

\* -------------------------------------------- claims on the end of the run
LogTail(k) == SubSeq(Types(bootLog), Len(bootLog) - k + 1, Len(bootLog))

\* C19: sendOutbox and initNotifications do not wait for the legacy fetch. The
\* step of doInitialFetch that starts the legacy call dispatches both right
\* after it, the call still outstanding; so they are dispatched for as long as
\* the call stays outstanding and after it failed, and the end of the legacy
\* call, success or failure, dispatches nothing more in doInitialFetch.
C19_NoWaitForLegacy ==
    /\ [](PendingLegacy # {} =>
            LogTail(3) = <<FETCH_PRIVATE_MESSAGES, SEND_OUTBOX, INIT_NOTIFICATIONS>>)
    /\ [](last.call.origin = FETCH_PRIVATE_MESSAGES =>
            LogTail(3) = <<FETCH_PRIVATE_MESSAGES, SEND_OUTBOX, INIT_NOTIFICATIONS>>)
    /\ [][PendingLegacy = {} /\ PendingLegacy' # {} =>
             /\ bootLog'[Len(bootLog')] = initNotifications
             /\ bootLog'[Len(bootLog') - 1] = sendOutbox
             /\ bootLog'[Len(bootLog') - 2].type = FETCH_PRIVATE_MESSAGES
             /\ CountOf(SEND_OUTBOX) = 0
             /\ CountOf(INIT_NOTIFICATIONS) = 0
             /\ \A i \in PendingLegacy' : calls'[i].remote = "pending"]_vars
    /\ [][PendingLegacy # {} => bootLog' = bootLog]_vars

\* the legacy call failed; sendOutbox and initNotifications had been dispatched
C19_Witness ==
    /\ last.op = "fetchPrivateMessagesRejected"
    /\ last.call.remote = "failed"
    /\ CountOf(SEND_OUTBOX) = 1
    /\ CountOf(INIT_NOTIFICATIONS) = 1
    /\ bootLog[Len(bootLog)].type = INIT_NOTIFICATIONS

====
